---- MODULE Spec2Model ----
(***************************************************************************)
(* A model of src/bot/chatbot.py: the MCP protocol client (MCPClient), the *)
(* conversation orchestrator (MCPChatBot.process_message), the two input   *)
(* loops and main.  The tool server (child process) and the completion     *)
(* Gateway (LM Studio) are the environment.                                *)
(*                                                                         *)
(* Python's Optional values are modelled as sequences of length <= 1:      *)
(* None is << >> and a present value v is <<v>>.                           *)
(***************************************************************************)
EXTENDS Integers, Sequences, FiniteSets, TLC

\* ------------------------------------------------------------------ bounds
\* user messages processed in one session
MaxTurns == 2
\* tool calls the Gateway requests in one session, over all its responses
MaxCalls == 2
\* user messages in the sessions checked for progress
LiveTurns == 1
\* calls of MCPClient.stop on one client
MaxStops == 2

\* ------------------------------------------------------------- primitives
None == << >>
Some(v) == <<v>>
IsNone(o) == o = << >>
Val(o) == o[1]

RECURSIVE Str(_)
\* str(n) for n >= 0: the decimal digits of n, most significant first
Str(n) == IF n < 10 THEN <<n>> ELSE Append(Str(n \div 10), n % 10)

\* ------------------------------------------------------------ MCPMessage
\* a Response's result: {} for initialize, {"tools": [...]} for tools/list, the
\* tool's own output for tools/call
Payload(empty, tools, data) == [empty |-> empty, tools |-> tools, data |-> data]

\* dataclass MCPMessage: every field but jsonrpc defaults to None
MCPMessage(id, method, params, result, error) ==
  [jsonrpc |-> Some("2.0"), id |-> id, method |-> method, params |-> params,
   result |-> result, error |-> error]

\* a variant of message_dict that keeps every field, None as null
message_dict_all(m) == [k \in DOMAIN m |-> IF IsNone(m[k]) THEN "null" ELSE Val(m[k])]

\* {k: v for k, v in message.__dict__.items() if v is not None}
message_dict(m) == [k \in {f \in DOMAIN m : ~IsNone(m[f])} |-> Val(m[k])]

InitParams == [kind |-> "initialize", name |-> "", arguments |-> ""]
EmptyParams == [kind |-> "empty", name |-> "", arguments |-> ""]
CallParams(name, arguments) == [kind |-> "call", name |-> name, arguments |-> arguments]

\* ------------------------------------------------------- the environment
\* tool descriptors: the second has no "inputSchema" key
ToolEcho == [name |-> "echo", description |-> "Echoes input", inputSchema |-> "text"]
ToolAdd == [name |-> "add", description |-> "Adds"]
\* what the tool server may answer to tools/list
ServerToolLists == {<< >>, <<ToolEcho, ToolAdd>>}

\* argument payloads the Gateway may produce; json.loads accepts the first
ValidArgs == "{\"text\":\"hi\"}"
BadArgs == "{text: hi"
ToolCallChoices ==
  {[name |-> "echo", arguments |-> ValidArgs],
   [name |-> "add", arguments |-> ValidArgs],
   [name |-> "echo", arguments |-> BadArgs]}

\* json.loads(s): the parsed value, or None for a JSONDecodeError
json_loads(s) == IF s = ValidArgs THEN Some("text=hi") ELSE None

ToolCallLists == UNION {[1..n -> ToolCallChoices] : n \in 1..MaxCalls}

\* a Gateway answer: {"error": ...} or {"choices": [{"message": ...}]}
GatewayError == [error |-> TRUE, content |-> "", tool_calls |-> << >>]
GatewayMessage(content, calls) == [error |-> FALSE, content |-> content, tool_calls |-> calls]
\* the Gateway's answers to the first call of a turn: it requests only tools
\* whose schema the call carried
FirstResponses(call) ==
  {GatewayError, GatewayMessage("answer", << >>)}
    \cup {GatewayMessage("", c) : c \in
            {l \in ToolCallLists :
               \A i \in 1..Len(l) :
                 /\ ~IsNone(call.tools)
                 /\ \E j \in 1..Len(Val(call.tools)) :
                      Val(call.tools)[j].function.name = l[i].name}}
\* its answers to the follow-up call: the message may again hold tool calls
FinalResponses ==
  {GatewayError, GatewayMessage("final", <<[name |-> "echo", arguments |-> ValidArgs]>>)}

UserInputs == {"hi"}

\* ------------------------------------------------------------------ state
VARIABLES
  mode,                        \* args.mode
  pc,                          \* where the single thread of control is
  caller,                      \* which method awaits send_request
  process,                     \* MCPClient.process is not None
  child,                       \* the child process: "none", "running", "exited"
  message_id,                  \* MCPClient.message_id
  stdin,                       \* the lines written to the child it has not read yet
  stdout,                      \* the lines the child wrote and nobody read yet
  written,                     \* the lines written to the child since the turn began
  pending,                     \* the id of the outstanding Request, or None
  response,                    \* what send_request returned last
  last_request,                \* the id send_request wrote last
  available_tools,             \* MCPChatBot.available_tools
  conversation_history,        \* MCPChatBot.conversation_history
  tools_used_in_conversation,  \* MCPChatBot.tools_used_in_conversation
  previous_tools,              \* MCPChatBot._previous_tools, None until first set
  turn,                        \* user messages processed so far
  history_before,              \* conversation_history when the turn began
  tools_used_before,           \* tools_used_in_conversation when the turn began
  gateway_calls,               \* the Gateway calls of this turn: the tools passed
  assistant_message,           \* the first Gateway response's message
  idx,                         \* position in assistant_message.tool_calls
  tool_results,                \* process_message's tool_results
  tools_used_this_turn,        \* process_message's tools_used_this_turn
  outcome,                     \* how the last turn ended
  reply,                       \* what process_message returned last, None if it raised
  reported,                    \* tools_used printed for the last turn
  requested,                   \* tool calls the Gateway has requested so far
  stop_calls,                  \* executions of MCPClient.stop
  terminate_calls,             \* termination signals sent to the child
  exit_code,                   \* the process's exit status, None while running
  stop_raised,                 \* the last MCPClient.stop raised ProcessLookupError
  notification                 \* notifications/initialized: "none", "sent", "failed"

vars ==
  <<mode, pc, caller, process, child, message_id, stdin, stdout, written, pending,
    response, last_request, available_tools, conversation_history,
    tools_used_in_conversation, previous_tools, turn, history_before,
    tools_used_before, gateway_calls, assistant_message, idx,
    tool_results, tools_used_this_turn, outcome, reply, reported, requested, stop_calls,
    terminate_calls, exit_code, stop_raised, notification>>

clientVars == <<process, message_id, pending, response, last_request, caller>>
pipeVars == <<stdin, stdout, written>>
botVars ==
  <<available_tools, conversation_history, tools_used_in_conversation, previous_tools>>
turnVars ==
  <<turn, history_before, tools_used_before, gateway_calls,
    assistant_message, idx, tool_results, tools_used_this_turn, requested>>
endVars == <<stop_calls, terminate_calls, exit_code, stop_raised>>

NoMessage == [error |-> FALSE, content |-> "", tool_calls |-> << >>]

\* MCPClient.__init__, MCPChatBot.__init__, and main up to chatbot.start()
Init ==
  /\ mode \in {"interactive", "stdio"}
  /\ pc = "boot"
  /\ caller = "none"
  /\ process = FALSE
  /\ child = "none"
  /\ message_id = 0
  /\ stdin = << >>
  /\ stdout = << >>
  /\ written = << >>
  /\ pending = None
  /\ response = None
  /\ last_request = None
  /\ available_tools = << >>
  /\ conversation_history = << >>
  /\ tools_used_in_conversation = << >>
  /\ previous_tools = None
  /\ turn = 0
  /\ history_before = << >>
  /\ tools_used_before = << >>
  /\ gateway_calls = << >>
  /\ assistant_message = NoMessage
  /\ idx = 0
  /\ tool_results = << >>
  /\ tools_used_this_turn = << >>
  /\ outcome = "none"
  /\ reply = None
  /\ reported = {}
  /\ requested = 0
  /\ stop_calls = 0
  /\ terminate_calls = 0
  /\ exit_code = None
  /\ stop_raised = FALSE
  /\ notification = "none"

\* ------------------------------------------------------------- MCPClient
\* main's "except Exception: sys.exit(1)": the exception leaves chatbot.start()
\* and nothing on that path calls stop()
startup_fails ==
  /\ pc' = "done"
  /\ exit_code' = Some(1)
  /\ UNCHANGED <<stop_calls, terminate_calls, stop_raised>>

\* a variant of with_id that does not take the id from the counter
with_id_fixed(message) ==
  IF IsNone(message.id) THEN [message EXCEPT !.id = Some(Str(1))]
  ELSE message

\* send_request up to the write: message_id += 1 and the id is assigned only
\* if the message has none
with_id(message) ==
  IF IsNone(message.id) THEN [message EXCEPT !.id = Some(Str(message_id + 1))]
  ELSE message

\* send_request, the write succeeded: the line is on the child's stdin and the
\* method awaits readline()
send_request(message, who) ==
  /\ message_id' = message_id + 1
  /\ stdin' = Append(stdin, message_dict(with_id(message)))
  /\ written' = Append(written, message_dict(with_id(message)))
  /\ pending' = with_id(message).id
  /\ last_request' = with_id(message).id
  /\ caller' = who
  /\ pc' = "await_line"
  /\ UNCHANGED <<stdout, response>>

\* send_request, stdin.write/drain raised (the pipe is closed)
send_request_raises ==
  /\ message_id' = message_id + 1
  /\ UNCHANGED <<stdin, stdout, written, pending, last_request, caller, response>>

init_request == MCPMessage(Some(Str(message_id)), Some("initialize"), Some(InitParams), None, None)

\* MCPClient.start: spawn the child, then initialize() up to its await
start ==
  /\ pc = "boot"
  /\ \E spawned \in BOOLEAN, write_ok \in BOOLEAN :
       IF ~spawned
       THEN /\ startup_fails
            /\ UNCHANGED <<child, process, message_id, pending, response, last_request, caller, pipeVars>>
       ELSE /\ process' = TRUE
            /\ child' = "running"
            /\ IF write_ok
               THEN /\ send_request(init_request, "initialize")
                    /\ UNCHANGED endVars
               ELSE /\ send_request_raises
                    /\ startup_fails
  /\ UNCHANGED <<mode, notification, botVars, turnVars, outcome, reply, reported>>

\* ------------------------------------------------------- the tool server
\* a line of the child's stdout: a JSON object with the Request's id and either
\* a result or an error, or text that is not JSON
Line(json, id, result, error) == [json |-> json, id |-> id, result |-> result, error |-> error]
ServerError == [code |-> -32000, message |-> "failed"]

\* the results a server may give to a Request of this method
ServerResults(method) ==
  IF method = "initialize" THEN {Payload(TRUE, None, "")}
  ELSE IF method = "tools/list" THEN {Payload(FALSE, Some(tl), "") : tl \in ServerToolLists}
  ELSE {Payload(FALSE, None, "output")}

\* the lines a server may answer a Request with: it echoes the Request's id
ServerAnswers(request) ==
  {Line(TRUE, Some(request.id), Some(r), None) : r \in ServerResults(request.method)}
    \cup {Line(TRUE, Some(request.id), None, Some(ServerError)),
          Line(FALSE, None, None, None)}

\* the child consumes the next line of its stdin: a Notification gets no
\* answer; a Request gets one line, now or after the client stopped waiting.
\* Only readline() observes the child's output, so its steps
\* are taken while the client waits for a line
server_step ==
  /\ child = "running"
  /\ pc = "await_line"
  /\ stdin # << >>
  /\ stdin' = Tail(stdin)
  /\ LET request == Head(stdin) IN
       IF "id" \notin DOMAIN request
       THEN stdout' = stdout
       ELSE \E line \in ServerAnswers(request) : stdout' = Append(stdout, line)
  /\ UNCHANGED <<mode, pc, child, written, clientVars, notification, botVars, turnVars,
                 outcome, reply, reported, endVars>>

\* ------------------------------------------------- send_request, the read
\* json.loads(response_text) and the MCPMessage built from it; None for a
\* JSONDecodeError
parse_response(line) ==
  IF line.json THEN Some(MCPMessage(line.id, None, None, line.result, line.error))
  ELSE None

\* readline() returned the next line of the child's stdout
read_line ==
  /\ pc = "await_line"
  /\ stdout # << >>
  /\ response' = parse_response(Head(stdout))
  /\ stdout' = Tail(stdout)
  /\ pending' = None
  /\ pc' = "returned"
  /\ UNCHANGED <<mode, child, process, message_id, last_request, caller, stdin, written,
                 notification, botVars, turnVars, outcome, reply, reported, endVars>>

\* a variant of read_timeout for a readline() without wait_for: the method
\* keeps waiting
read_without_timeout ==
  /\ pc = "await_line"
  /\ stdout = << >>
  /\ UNCHANGED vars

\* a variant of read_timeout that returns to the caller and leaves the
\* readline() of this Request waiting
read_timeout_uncancelled ==
  /\ pc = "await_line"
  /\ stdout = << >>
  /\ response' = None
  /\ pc' = "returned"
  /\ UNCHANGED <<mode, child, process, message_id, pending, last_request, caller, pipeVars,
                 notification, botVars, turnVars, outcome, reply, reported, endVars>>

\* asyncio.wait_for raised TimeoutError: nothing to read for 10 seconds
read_timeout ==
  /\ pc = "await_line"
  /\ stdout = << >>
  /\ response' = None
  /\ pending' = None
  /\ pc' = "returned"
  /\ UNCHANGED <<mode, child, process, message_id, last_request, caller, pipeVars,
                 notification, botVars, turnVars, outcome, reply, reported, endVars>>

\* "response and not response.error" is false
failed(resp) == IsNone(resp) \/ ~IsNone(Val(resp).error)

\* ------------------------------------------------------------- initialize
\* a variant of initialize_result that lets the exception of send_notification
\* escape
initialize_result_strict(resp, notified) ==
  IF failed(resp) \/ ~notified THEN "raise" ELSE "ready"

\* a variant of initialize_result that lets startup go on after a failed
\* initialize
initialize_result_lenient(resp, notified) == "ready"

\* initialize after send_request returned: "ready" when it returns, "raise"
\* when it raises; an exception of send_notification is caught and logged
initialize_result(resp, notified) ==
  IF failed(resp) THEN "raise" ELSE "ready"

initialized_notification ==
  MCPMessage(None, Some("notifications/initialized"), Some(EmptyParams), None, None)

initialize_return ==
  /\ pc = "returned"
  /\ caller = "initialize"
  /\ \E notified \in BOOLEAN :
       /\ notification' = IF failed(response) THEN "none"
                          ELSE IF notified THEN "sent" ELSE "failed"
       /\ stdin' = IF ~failed(response) /\ notified
                   THEN Append(stdin, message_dict(initialized_notification))
                   ELSE stdin
       /\ written' = IF ~failed(response) /\ notified
                     THEN Append(written, message_dict(initialized_notification))
                     ELSE written
       /\ IF initialize_result(response, notified) = "ready"
          THEN /\ pc' = "list_tools"
               /\ UNCHANGED endVars
          ELSE startup_fails
  /\ response' = None
  /\ UNCHANGED <<mode, child, process, message_id, pending, last_request, caller, stdout,
                 botVars, turnVars, outcome, reply, reported>>

\* -------------------------------------------------------------- list_tools
list_tools_request == MCPMessage(None, Some("tools/list"), Some(EmptyParams), None, None)

\* MCPChatBot.start after mcp_client.start() returned: list_tools() up to its await
list_tools ==
  /\ pc = "list_tools"
  /\ \E write_ok \in BOOLEAN :
       IF write_ok
       THEN /\ send_request(list_tools_request, "list_tools")
            /\ UNCHANGED endVars
       ELSE /\ send_request_raises
            /\ startup_fails
  /\ UNCHANGED <<mode, child, process, notification, botVars, turnVars, outcome, reply, reported>>

\* a variant of list_tools_result that answers a failed call with a tool
list_tools_result_fallback(resp) ==
  IF failed(resp) THEN <<ToolEcho>>
  ELSE IF IsNone(Val(resp).result) \/ Val(Val(resp).result).empty THEN << >>
  ELSE IF IsNone(Val(Val(resp).result).tools) THEN << >>
  ELSE Val(Val(Val(resp).result).tools)

\* what list_tools returns: response.result.get('tools', []) if response.result
\* else [], and [] for a failed call
list_tools_result(resp) ==
  IF failed(resp) THEN << >>
  ELSE IF IsNone(Val(resp).result) \/ Val(Val(resp).result).empty THEN << >>
  ELSE IF IsNone(Val(Val(resp).result).tools) THEN << >>
  ELSE Val(Val(Val(resp).result).tools)

\* a conversation entry: role, content (text or aggregated tool results) and
\* the tool_calls of an assistant message
Entry(role, text, calls, results) ==
  [role |-> role, content |-> text, tool_calls |-> calls, results |-> results]

\* create_system_message: the content lists the available tools' names
create_system_message(tools) ==
  Entry("system", "system", << >>, [i \in 1..Len(tools) |-> tools[i].name])

\* the rest of MCPChatBot.start: keep the tools, (read the child's stderr when
\* there are none,) append the system message; main then enters the loop
list_tools_return ==
  /\ pc = "returned"
  /\ caller = "list_tools"
  /\ available_tools' = list_tools_result(response)
  /\ conversation_history' =
       Append(conversation_history, create_system_message(list_tools_result(response)))
  /\ pc' = "loop"
  /\ response' = None
  /\ UNCHANGED <<mode, child, process, message_id, pending, last_request, caller,
                 notification, pipeVars, tools_used_in_conversation, previous_tools,
                 turnVars, outcome, reply, reported, endVars>>

\* ---------------------------------------------------------- Tool Bridge
convert_tool(tool) ==
  [type |-> "function",
   function |->
     IF "inputSchema" \in DOMAIN tool
     THEN [name |-> tool.name,
           description |-> IF "description" \in DOMAIN tool THEN tool.description ELSE "",
           parameters |-> tool.inputSchema]
     ELSE [name |-> tool.name,
           description |-> IF "description" \in DOMAIN tool THEN tool.description ELSE ""]]

convert_tools_for_openai(tools) == [i \in 1..Len(tools) |-> convert_tool(tools[i])]

\* ------------------------------------------------------- process_message
\* chat_completion(messages, tools): "tools if tools else None"
GatewayCall(messages, tools) ==
  [messages |-> messages, tools |-> IF tools = << >> THEN None ELSE Some(tools)]

Range(seq) == {seq[i] : i \in 1..Len(seq)}

\* process_message's local variables end with the call
locals_dropped ==
  /\ assistant_message' = NoMessage
  /\ idx' = 0
  /\ tool_results' = << >>
  /\ tools_used_this_turn' = << >>

\* a variant of turn_returns that reports the whole cumulative record
turn_returns_unfiltered(kind, text, used) ==
  /\ outcome' = kind
  /\ reply' = Some(text)
  /\ pc' = "loop"
  /\ locals_dropped
  /\ IF mode = "stdio"
     THEN /\ reported' = Range(used)
          /\ previous_tools' = Some(Range(used))
     ELSE UNCHANGED <<reported, previous_tools>>

\* process_message returned to the loop: stdio mode prints the tools of the
\* cumulative record that _previous_tools does not hold, then replaces
\* _previous_tools; interactive mode prints the text
turn_returns(kind, text, used) ==
  /\ outcome' = kind
  /\ reply' = Some(text)
  /\ pc' = "loop"
  /\ locals_dropped
  /\ IF mode = "stdio"
     THEN /\ reported' =
               {t \in Range(used) : IsNone(previous_tools) \/ t \notin Val(previous_tools)}
          /\ previous_tools' = Some(Range(used))
     ELSE UNCHANGED <<reported, previous_tools>>

\* a variant of turn_raises without the loop's "except Exception": the
\* exception ends the loop function
turn_raises_fatal ==
  /\ outcome' = "exception"
  /\ pc' = "done"
  /\ locals_dropped
  /\ reply' = None
  /\ UNCHANGED <<reported, previous_tools>>

\* process_message raised: the loop's "except Exception" prints the error
turn_raises ==
  /\ outcome' = "exception"
  /\ pc' = "loop"
  /\ locals_dropped
  /\ reply' = None
  /\ UNCHANGED <<reported, previous_tools>>

\* a variant of with_user_turn that leaves the history as it is
user_turn_not_appended(history, user_input) == history

\* self.conversation_history.append({"role": "user", "content": user_input})
with_user_turn(history, user_input) ==
  Append(history, Entry("user", user_input, << >>, << >>))

\* process_message up to its first await: append the user turn and call the
\* Gateway with the whole conversation and the converted tools
process_message(user_input) ==
  /\ turn' = turn + 1
  /\ history_before' = conversation_history
  /\ tools_used_before' = tools_used_in_conversation
  /\ written' = << >>
  /\ conversation_history' = with_user_turn(conversation_history, user_input)
  /\ gateway_calls' =
       <<GatewayCall(with_user_turn(conversation_history, user_input),
                     convert_tools_for_openai(available_tools))>>
  /\ assistant_message' = NoMessage
  /\ idx' = 0
  /\ tool_results' = << >>
  /\ tools_used_this_turn' = << >>
  /\ pc' = "gw_first"
  /\ UNCHANGED <<requested, available_tools, tools_used_in_conversation, previous_tools, outcome,
                 reply, reported>>

\* the first chat_completion returned
gateway_first_return ==
  /\ pc = "gw_first"
  /\ \E r \in FirstResponses(gateway_calls[1]) :
       /\ requested + Len(r.tool_calls) <= MaxCalls
       /\ requested' = requested + Len(r.tool_calls)
       /\ IF r.error
          THEN \* return f"Error: {response['error']}"
               /\ turn_returns("gateway_error", "Error", tools_used_in_conversation)
               /\ UNCHANGED conversation_history
          ELSE IF r.tool_calls = << >>
          THEN \* no tools needed: append the message and return its content
               /\ conversation_history' =
                    Append(conversation_history, Entry("assistant", r.content, << >>, << >>))
               /\ turn_returns("answer", r.content, tools_used_in_conversation)
          ELSE \* enter the loop over assistant_message["tool_calls"]
               /\ assistant_message' = r
               /\ idx' = 1
               /\ tool_results' = << >>
               /\ tools_used_this_turn' = << >>
               /\ pc' = "tool_loop"
               /\ UNCHANGED <<conversation_history, outcome, reply, reported, previous_tools>>
  /\ UNCHANGED <<mode, child, clientVars, notification, pipeVars, available_tools,
                 tools_used_in_conversation, turn, history_before, tools_used_before,
                 gateway_calls, endVars>>

call_tool_request(tool_name, arguments) ==
  MCPMessage(None, Some("tools/call"), Some(CallParams(tool_name, arguments)), None, None)

\* a variant of tool_call_at that walks the list from its end
tool_call_reversed(calls, i) == calls[Len(calls) + 1 - i]

\* "for tool_call in assistant_message["tool_calls"]": the call of iteration i
tool_call_at(calls, i) == calls[i]

\* one iteration of the loop up to call_tool's await: json.loads of the
\* argument payload (a JSONDecodeError leaves process_message), the name is
\* recorded, the tools/call Request is written
tool_call_step ==
  /\ pc = "tool_loop"
  /\ idx <= Len(assistant_message.tool_calls)
  /\ LET tool_call == tool_call_at(assistant_message.tool_calls, idx)
         arguments == json_loads(tool_call.arguments)
     IN IF IsNone(arguments)
        THEN /\ turn_raises
             /\ UNCHANGED <<clientVars, pipeVars>>
        ELSE \E write_ok \in BOOLEAN :
               IF write_ok
               THEN /\ tools_used_this_turn' = Append(tools_used_this_turn, tool_call.name)
                    /\ send_request(call_tool_request(tool_call.name, Val(arguments)),
                                    "call_tool")
                    /\ UNCHANGED <<process, outcome, reply, reported, previous_tools,
                                   assistant_message, idx, tool_results>>
               ELSE /\ send_request_raises
                    /\ turn_raises
                    /\ UNCHANGED process
  /\ UNCHANGED <<mode, child, notification, available_tools, conversation_history,
                 tools_used_in_conversation, turn, history_before, tools_used_before,
                 gateway_calls, requested, endVars>>

\* a variant of call_tool_result without the error branch
call_tool_result_unchecked(resp) ==
  [error |-> None, result |-> IF IsNone(resp) THEN None ELSE Val(resp).result]

\* what call_tool returns: response.result, or {"error": str(error_msg)}
call_tool_result(resp) ==
  IF ~failed(resp) THEN [error |-> None, result |-> Val(resp).result]
  ELSE [error |-> Some(IF IsNone(resp) THEN "No response" ELSE Val(Val(resp).error).message),
        result |-> None]

\* a variant of call_tool_return that repeats a call whose Response was an
\* error or missing
call_tool_return_retry ==
  /\ pc = "returned"
  /\ caller = "call_tool"
  /\ IF failed(response)
     THEN UNCHANGED <<tool_results, idx>>
     ELSE /\ tool_results' =
               Append(tool_results,
                      [name |-> tool_call_at(assistant_message.tool_calls, idx).name,
                       result |-> call_tool_result(response)])
          /\ idx' = idx + 1
  /\ pc' = "tool_loop"
  /\ response' = None
  /\ UNCHANGED <<mode, child, process, message_id, pending, last_request, caller,
                 notification, pipeVars, botVars, turn,
                 history_before, tools_used_before, gateway_calls,
                 assistant_message, tools_used_this_turn, requested, outcome, reply, reported,
                 endVars>>

\* call_tool returned: the result is aggregated and the loop goes on
call_tool_return ==
  /\ pc = "returned"
  /\ caller = "call_tool"
  /\ tool_results' =
       Append(tool_results,
              [name |-> tool_call_at(assistant_message.tool_calls, idx).name,
               result |-> call_tool_result(response)])
  /\ idx' = idx + 1
  /\ pc' = "tool_loop"
  /\ response' = None
  /\ UNCHANGED <<mode, child, process, message_id, pending, last_request, caller,
                 notification, pipeVars, botVars, turn,
                 history_before, tools_used_before, gateway_calls,
                 assistant_message, tools_used_this_turn, requested, outcome, reply, reported,
                 endVars>>

\* a variant of history_with_results with one tool-result entry per tool call
history_with_each_result ==
  conversation_history
    \o <<Entry("assistant", assistant_message.content, assistant_message.tool_calls, << >>)>>
    \o [i \in 1..Len(tool_results) |-> Entry("user", "Tool results", << >>, <<tool_results[i]>>)]

\* a variant of history_with_results that files the tool results before the
\* assistant's tool-call message
history_with_results_swapped ==
  conversation_history
    \o <<Entry("user", "Tool results", << >>, tool_results),
         Entry("assistant", assistant_message.content, assistant_message.tool_calls, << >>)>>

\* after the loop: append the assistant's tool-call message and one user entry
\* with all tool results, then call the Gateway again, without tools
history_with_results ==
  conversation_history
    \o <<Entry("assistant", assistant_message.content, assistant_message.tool_calls, << >>),
         Entry("user", "Tool results", << >>, tool_results)>>

tool_loop_done ==
  /\ pc = "tool_loop"
  /\ idx > Len(assistant_message.tool_calls)
  /\ conversation_history' = history_with_results
  /\ gateway_calls' = Append(gateway_calls, GatewayCall(history_with_results, << >>))
  /\ pc' = "gw_final"
  /\ UNCHANGED <<mode, child, clientVars, notification, pipeVars, available_tools,
                 tools_used_in_conversation, previous_tools, turn, history_before,
                 tools_used_before, assistant_message, idx, tool_results,
                 tools_used_this_turn, requested, outcome, reply, reported, endVars>>

\* the second chat_completion returned: its message is final whatever it holds
gateway_final_return ==
  /\ pc = "gw_final"
  /\ \E r \in FinalResponses :
       IF r.error
       THEN \* return f"Error in final response: ..."
            /\ turn_returns("final_error", "Error in final response", tools_used_in_conversation)
            /\ UNCHANGED <<conversation_history, tools_used_in_conversation>>
       ELSE /\ conversation_history' =
                 Append(conversation_history,
                        Entry("assistant", r.content, r.tool_calls, << >>))
            /\ tools_used_in_conversation' =
                 tools_used_in_conversation \o tools_used_this_turn
            /\ turn_returns("final", r.content, tools_used_in_conversation \o tools_used_this_turn)
  /\ UNCHANGED <<mode, child, clientVars, notification, pipeVars, available_tools,
                 turn, history_before, tools_used_before, gateway_calls,
                 requested, endVars>>

\* ---------------------------------------------------------------- the loops
\* MCPChatBot.stop -> MCPClient.stop, run by the loops' finally clause:
\* terminate() and wait() if a process was started; then the loop function and
\* main return.  The child may have exited by itself before: terminate() on
\* an exited process raises ProcessLookupError, which leaves the finally
\* clause and reaches main's "except Exception: sys.exit(1)"
stop ==
  /\ stop_calls' = stop_calls + 1
  /\ IF process
     THEN \E alive \in BOOLEAN :
            /\ terminate_calls' = IF alive THEN terminate_calls + 1 ELSE terminate_calls
            /\ stop_raised' = ~alive
            /\ exit_code' = IF alive THEN Some(0) ELSE Some(1)
            /\ child' = "exited"
     ELSE /\ exit_code' = Some(0)
          /\ UNCHANGED <<terminate_calls, child, stop_raised>>
  /\ pc' = "done"

\* run_stdio: one readline of the session's standard input
run_stdio ==
  /\ mode = "stdio"
  /\ pc = "loop"
  /\ \/ \* EOF: break, the finally clause stops the client
        /\ stop
        /\ UNCHANGED <<botVars, turnVars, outcome, reply, reported, written>>
     \/ \* a blank line: continue
        /\ UNCHANGED <<pc, botVars, turnVars, outcome, reply, reported, child, endVars, written>>
     \/ /\ turn < MaxTurns
        /\ \E user_input \in UserInputs : process_message(user_input)
        /\ UNCHANGED <<child, endVars>>
  /\ UNCHANGED <<mode, clientVars, notification, stdin, stdout>>

\* run_interactive: one input() of the console
run_interactive ==
  /\ mode = "interactive"
  /\ pc = "loop"
  /\ \/ \* quit, exit or bye: break, the finally clause stops the client
        /\ stop
        /\ UNCHANGED <<botVars, turnVars, outcome, reply, reported, written>>
     \/ \* a blank line: continue; input() raised EOFError: "except Exception"
        \* prints it and the loop goes on
        /\ UNCHANGED <<pc, botVars, turnVars, outcome, reply, reported, child, endVars, written>>
     \/ /\ turn < MaxTurns
        /\ \E user_input \in UserInputs : process_message(user_input)
        /\ UNCHANGED <<child, endVars>>
  /\ UNCHANGED <<mode, clientVars, notification, stdin, stdout>>

\* KeyboardInterrupt at a point where the program waits.  During startup only
\* main's handler catches it: it logs and returns.  In a loop it reaches the
\* finally clause (run_interactive breaks, run_stdio lets it pass through)
interrupt ==
  /\ pc \in {"await_line", "gw_first", "gw_final", "loop"}
  /\ IF pc = "await_line" /\ caller \in {"initialize", "list_tools"}
     THEN /\ pc' = "done"
          /\ exit_code' = Some(0)
          /\ UNCHANGED <<child, stop_calls, terminate_calls, stop_raised>>
     ELSE stop
  /\ pending' = None
  /\ UNCHANGED <<mode, process, message_id, response, last_request, caller,
                 notification, pipeVars, botVars, turnVars, outcome, reply, reported>>

Next ==
  \/ start
  \/ server_step
  \/ read_line
  \/ read_timeout
  \/ initialize_return
  \/ list_tools
  \/ list_tools_return
  \/ gateway_first_return
  \/ tool_call_step
  \/ call_tool_return
  \/ tool_loop_done
  \/ gateway_final_return
  \/ run_stdio
  \/ run_interactive
  \/ interrupt

Spec == Init /\ [][Next]_vars

\* MCPClient.stop called once more by the owner of the client, after the
\* session is over: self.process is still set after a first stop, so
\* terminate() is called again, on an exited process
stop_again ==
  /\ pc = "done"
  /\ stop_calls < MaxStops
  /\ stop_calls' = stop_calls + 1
  /\ IF process
     THEN /\ terminate_calls' = IF child = "running" THEN terminate_calls + 1
                                ELSE terminate_calls
          /\ stop_raised' = (child = "exited")
          /\ child' = "exited"
     ELSE UNCHANGED <<terminate_calls, child, stop_raised>>
  /\ UNCHANGED <<mode, pc, clientVars, notification, pipeVars, botVars, turnVars,
                 outcome, reply, reported, exit_code>>

ApiNext == Next \/ stop_again

\* the program, and its client stopped again by whoever owns it
ApiSpec == Init /\ [][ApiNext]_vars

\* sessions of at most LiveTurns user messages
LiveNext == Next /\ turn' <= LiveTurns

\* the event loop's scheduling while send_request awaits: a line on the child's
\* stdout completes readline(), and the 10 second timer of wait_for fires
LiveSpec ==
  Init /\ [][LiveNext]_vars /\ WF_vars(read_line) /\ WF_vars(read_timeout)

\* ------------------------------------------------------------------ claims
Last(seq) == seq[Len(seq)]

\* C1: every Response send_request returns carries the id of the Request that
\* this call wrote; a line answering an earlier Request is never returned for
\* a later one.
C1_ResponseMatchesRequest ==
  (pc = "returned" /\ ~IsNone(response)) => Val(response).id = last_request

\* C2: on every exit path of a session whose child was spawned, stop() has run
\* exactly once and the child has been terminated and awaited when main is over.
C2_StopOnEveryExit ==
  (pc = "done" /\ process) => (stop_calls = 1 /\ child = "exited")

\* C3: a tool call whose argument payload is not valid JSON counts as a tool
\* failure: its error is recorded as that call's tool result and the loop goes
\* on to the remaining calls (and from there to the follow-up Gateway call).
C3_BadArgumentsAreToolFailure ==
  [][(/\ pc = "tool_loop"
      /\ idx <= Len(assistant_message.tool_calls)
      /\ IsNone(json_loads(assistant_message.tool_calls[idx].arguments)))
     => (/\ pc' = "tool_loop"
         /\ idx' = idx + 1
         /\ Len(tool_results') = Len(tool_results) + 1
         /\ ~IsNone(Last(tool_results').result.error))]_vars

\* C4: when a tools/call gets an error Response or no Response, call_tool
\* returns an error value: the loop goes on with that error as the call's tool
\* result, the aggregated tool-result turn of the completed loop holds it, and
\* the child keeps running.
C4_FailedCallIsErrorValue ==
  /\ [][(pc = "returned" /\ caller = "call_tool" /\ failed(response))
        => (/\ pc' = "tool_loop"
            /\ idx' = idx + 1
            /\ Len(tool_results') = Len(tool_results) + 1
            /\ SubSeq(tool_results', 1, Len(tool_results)) = tool_results
            /\ ~IsNone(Last(tool_results').result.error)
            /\ IsNone(Last(tool_results').result.result)
            /\ child' = "running"
            /\ stop_calls' = 0)]_vars
  /\ [](pc = "gw_final"
        => (/\ Last(conversation_history).results = tool_results
            /\ Len(tool_results) = Len(assistant_message.tool_calls)
            /\ child = "running"))

\* C4 happens: a turn reached its follow-up Gateway call with a failed call's
\* error in the tool-result turn, the child still running
C4_Witness ==
  /\ pc = "gw_final"
  /\ child = "running"
  /\ \E i \in 1..Len(Last(conversation_history).results) :
       ~IsNone(Last(conversation_history).results[i].result.error)

\* C5: if the first Gateway response of a turn requests tool calls, the turn
\* issues exactly one further Gateway call, without tools, and returns from
\* it; no turn issues more than two Gateway calls.
C5_ExactlyOneFollowUp ==
  /\ [][(assistant_message.tool_calls # << >> /\ pc # "loop" /\ pc' = "loop")
        => (/\ pc = "gw_final"
            /\ Len(gateway_calls) = 2
            /\ IsNone(gateway_calls[2].tools))]_vars
  /\ [](Len(gateway_calls) <= 2)

\* C6: the tools/call Requests of a turn are written in the order of the
\* Gateway's tool_calls list, each one only after the previous call returned,
\* and the tool results are aggregated in that order.
C6_CallsInGatewayOrder ==
  assistant_message.tool_calls # << >> =>
    LET calls == assistant_message.tool_calls IN
      /\ Len(written) <= Len(calls)
      /\ \A i \in 1..Len(written) :
           /\ written[i].method = "tools/call"
           /\ written[i].params.name = calls[i].name
           /\ Some(written[i].params.arguments) = json_loads(calls[i].arguments)
      /\ Len(tool_results) <= Len(written)
      /\ Len(written) <= Len(tool_results) + 1
      /\ Len(written) = Len(tool_results) + 1 => pc \in {"await_line", "returned", "done"}
      /\ pc = "await_line" => Len(written) = Len(tool_results) + 1
      /\ \A i \in 1..Len(tool_results) : tool_results[i].name = calls[i].name
      /\ pc = "gw_final" =>
           /\ Last(conversation_history).results = tool_results
           /\ conversation_history[Len(conversation_history) - 1].tool_calls = calls

\* C6 happens: two calls to different tools were written and answered
C6_Witness ==
  /\ pc = "gw_final"
  /\ Len(written) = 2
  /\ written[1].params.name # written[2].params.name
  /\ Len(tool_results) = 2

\* C7: after the first Gateway call of a turn returned an error, the turn has
\* issued no tool call and no second Gateway call, the conversation is its
\* value before the turn plus the user turn, and the tools-used record is as
\* before.
C7_GatewayErrorKeepsUserTurn ==
  (pc = "loop" /\ outcome = "gateway_error") =>
    /\ \E u \in UserInputs :
         conversation_history = Append(history_before, Entry("user", u, << >>, << >>))
    /\ Len(gateway_calls) = 1
    /\ written = << >>
    /\ tools_used_in_conversation = tools_used_before

\* C7 happens: a turn ended with the first Gateway call's error
C7_Witness ==
  /\ pc = "loop"
  /\ outcome = "gateway_error"
  /\ Len(conversation_history) = Len(history_before) + 1

\* C8: initialize given a Response with a populated error fails, main exits
\* with status 1, and the client is closed: its child process is stopped.
C8_InitializeErrorCloses ==
  [][(/\ pc = "returned"
      /\ caller = "initialize"
      /\ ~IsNone(response)
      /\ ~IsNone(Val(response).error))
     => (/\ pc' = "done"
         /\ exit_code' = Some(1)
         /\ child' = "exited")]_vars

\* C9: initialize given a Response without an error returns normally and the
\* session goes on to tools/list, whether the notifications/initialized write
\* succeeded or failed.
C9_NotificationFailureNotFatal ==
  /\ [][(pc = "returned" /\ caller = "initialize" /\ ~failed(response))
        => (/\ pc' = "list_tools"
            /\ exit_code' = None
            /\ notification' \in {"sent", "failed"})]_vars
  /\ [](notification = "failed" => (pc = "list_tools" \/ message_id >= 2))

\* C9 happens: the notification write failed and tools/list was sent
C9_Witness ==
  /\ notification = "failed"
  /\ pc = "await_line"
  /\ caller = "list_tools"

\* C10: list_tools returns the empty list when tools/list gets an error
\* Response, a malformed line or no Response; startup still completes, and
\* the turns of a session without tools pass no tool schema to the Gateway.
C10_ListToolsFailureIsEmpty ==
  /\ [][(pc = "returned" /\ caller = "list_tools" /\ failed(response))
        => (/\ available_tools' = << >>
            /\ pc' = "loop"
            /\ exit_code' = None)]_vars
  /\ [](available_tools = << >>
        => \A i \in 1..Len(gateway_calls) : IsNone(gateway_calls[i].tools))

\* C10 happens: tools/list timed out (the child has not read it yet) and a
\* turn called the Gateway without a tool schema
C10_Witness ==
  /\ pc = "gw_first"
  /\ available_tools = << >>
  /\ stdin # << >>
  /\ IsNone(gateway_calls[1].tools)

RECURSIVE int(_)
\* int(text) for a sequence of decimal digits
int(digits) ==
  IF Len(digits) = 1 THEN digits[1]
  ELSE 10 * int(SubSeq(digits, 1, Len(digits) - 1)) + digits[Len(digits)]

\* text that is the decimal form of a natural number
IsIntegerText(digits) ==
  /\ Len(digits) >= 1
  /\ \A i \in 1..Len(digits) : digits[i] \in 0..9
  /\ Str(int(digits)) = digits

\* C12: every Request written carries an id that is integer-valued text and
\* is strictly above the id of the Request written before it, whatever became
\* of that Request; so no id is reused and every Request after initialize has
\* an id above that of initialize.
C12_IdsStrictlyIncrease ==
  /\ [][(pc # "await_line" /\ pc' = "await_line")
        => (/\ Last(stdin').id = Val(last_request')
            /\ IsIntegerText(Last(stdin').id)
            /\ ~IsNone(last_request) => int(Val(last_request')) > int(Val(last_request))
            /\ IsNone(last_request) <=> Last(stdin').method = "initialize")]_vars
  /\ [](\A i \in 1..Len(stdin) : \A j \in 1..Len(stdin) :
          ("id" \in DOMAIN stdin[i] /\ "id" \in DOMAIN stdin[j] /\ i < j)
            => int(stdin[i].id) < int(stdin[j].id))

\* C12 happens: a tools/call was written after a Request whose id was spent on
\* a failed write, and an earlier Request is still unread by the child
C12_Witness ==
  /\ pc = "await_line"
  /\ caller = "call_tool"
  /\ int(Val(last_request)) >= 4
  /\ Len(stdin) >= 2

\* C13: the initialize Request, the first Request of a session, is written
\* with id "1".
C13_InitializeIdIsOne ==
  [][(pc = "boot" /\ pc' = "await_line")
     => (Last(stdin').method = "initialize" /\ Last(stdin').id = Str(1))]_vars

\* C14: at most one suspending operation is outstanding.  A Request is written
\* only when no earlier Request of the client awaits its line and no Gateway
\* call is outstanding; a Gateway call is issued only when no Request and no
\* other Gateway call is outstanding; a Request awaits its line only while
\* send_request is suspended for it.
C14_OneOutstanding ==
  /\ [][(pc # "await_line" /\ pc' = "await_line")
        => (IsNone(pending) /\ pc \notin {"gw_first", "gw_final"})]_vars
  /\ [][(pc' \in {"gw_first", "gw_final"} /\ pc' # pc)
        => (/\ IsNone(pending)
            /\ IsNone(pending')
            /\ pc \notin {"await_line", "gw_first", "gw_final"})]_vars
  /\ [](~IsNone(pending) => pc = "await_line")
  /\ [](pc = "await_line" => pending = last_request)

\* C14 happens: the second tools/call of a turn awaits its line after the
\* first timed out, the child having read neither
C14_Witness ==
  /\ pc = "await_line"
  /\ caller = "call_tool"
  /\ Len(tool_results) = 1
  /\ ~IsNone(tool_results[1].result.error)
  /\ Len(stdin) >= 2
  /\ stdin[Len(stdin) - 1].method = "tools/call"

\* C15: an exception raised while a turn is processed (a tool call's argument
\* payload that json.loads rejects, a failed write of a tools/call) is caught at
\* the turn boundary in both modes: the loop is back at its input read, the
\* turn is reported as an error, stop() has not run, the child still runs and
\* the program has not exited.
C15_TurnErrorKeepsSession ==
  /\ [][(pc = "tool_loop" /\ idx <= Len(assistant_message.tool_calls) /\ pc' # "await_line")
        => (/\ pc' = "loop"
            /\ outcome' = "exception"
            /\ child' = "running"
            /\ stop_calls' = 0
            /\ IsNone(exit_code')
            /\ turn' = turn)]_vars
  /\ []((pc = "loop" /\ outcome = "exception")
        => (child = "running" /\ stop_calls = 0 /\ IsNone(exit_code)))

\* C15 happens: after a turn that raised, the loop took the next message
C15_Witness ==
  /\ outcome = "exception"
  /\ pc = "gw_first"
  /\ turn = 2
  /\ child = "running"

\* C16: the program exits with status 1 when startup fails (no child, a failed
\* write, a failed initialize), before any turn, and with status 0 when the
\* loop ends by end-of-input or quit.
C16_ExitStatus ==
  [][(pc # "done" /\ pc' = "done")
     => (/\ (pc \in {"boot", "returned", "list_tools"})
               => (exit_code' = Some(1) /\ turn = 0 /\ conversation_history = << >>)
         /\ pc = "loop" => exit_code' = Some(0))]_vars

\* C17: MCPClient.stop called again after the child has been terminated and
\* awaited raises nothing, sends no signal and leaves the client as it was;
\* called on a client without a process it does nothing.
C17_StopIdempotent ==
  [][(stop_calls' = stop_calls + 1 /\ (~process \/ (child = "exited" /\ terminate_calls >= 1)))
     => (/\ ~stop_raised'
         /\ terminate_calls' = terminate_calls
         /\ child' = child
         /\ process' = process)]_vars

\* C18: every function schema that convert_tools_for_openai produces, and that
\* a turn passes to the Gateway, has a parameters field, also for a tool
\* descriptor without inputSchema.
C18_ParametersAlwaysPresent ==
  \A i \in 1..Len(gateway_calls) :
    ~IsNone(gateway_calls[i].tools) =>
      \A j \in 1..Len(Val(gateway_calls[i].tools)) :
        "parameters" \in DOMAIN Val(gateway_calls[i].tools)[j].function

\* a line of the client: a Request has exactly jsonrpc, id, method and params,
\* a Notification exactly jsonrpc, method and params
WellFormedLine(line) ==
  /\ line.jsonrpc = "2.0"
  /\ IF line.method \in {"initialize", "tools/list", "tools/call"}
     THEN DOMAIN line = {"jsonrpc", "id", "method", "params"}
     ELSE /\ line.method = "notifications/initialized"
          /\ DOMAIN line = {"jsonrpc", "method", "params"}

\* C19: every line the client writes is well formed: a Request line holds
\* jsonrpc "2.0", an id and a method and neither result nor error; a
\* Notification line holds no id, result or error; a field that is None in
\* the message is left out of the line.
C19_LinesWellFormed ==
  /\ [][Len(stdin') > Len(stdin) =>
          /\ WellFormedLine(Last(stdin'))
          /\ SubSeq(stdin', 1, Len(stdin)) = stdin]_vars
  /\ [](\A i \in 1..Len(stdin) : WellFormedLine(stdin[i]))
  /\ [](\A i \in 1..Len(written) : WellFormedLine(written[i]))

\* C19 happens: the Notification and the tools/list Request are on the
\* child's stdin, the first without an id, the second with one
C19_Witness ==
  /\ Len(stdin) = 2
  /\ stdin[1].method = "notifications/initialized"
  /\ "id" \notin DOMAIN stdin[1]
  /\ stdin[2].method = "tools/list"
  /\ stdin[2].id = Str(2)

\* C20: the conversation is append-only: every step leaves the conversation it
\* found as a prefix of the new one; and the messages passed to the follow-up
\* Gateway call of a tool turn are the conversation before the turn, then the
\* user turn, the assistant's tool-call turn and the tool-result turn.
C20_ConversationAppendOnly ==
  /\ [][/\ Len(conversation_history') >= Len(conversation_history)
        /\ SubSeq(conversation_history', 1, Len(conversation_history)) = conversation_history]_vars
  /\ [](pc = "gw_final" =>
          LET n == Len(history_before) IN
            /\ Len(gateway_calls) = 2
            /\ gateway_calls[2].messages = conversation_history
            /\ Len(conversation_history) = n + 3
            /\ SubSeq(conversation_history, 1, n) = history_before
            /\ conversation_history[n + 1].role = "user"
            /\ conversation_history[n + 1].content \in UserInputs
            /\ conversation_history[n + 2].role = "assistant"
            /\ conversation_history[n + 2].tool_calls = assistant_message.tool_calls
            /\ conversation_history[n + 3].role = "user"
            /\ conversation_history[n + 3].results = tool_results
            /\ gateway_calls[1].messages = SubSeq(conversation_history, 1, n + 1))

\* C20 happens: the follow-up call of the second turn, after a first turn that
\* left more than its user turn in the conversation
C20_Witness ==
  /\ pc = "gw_final"
  /\ turn = 2
  /\ Len(history_before) >= 3
  /\ Len(tool_results) >= 1

\* C21: when a turn that invoked tools returns from its follow-up Gateway
\* call, with a message or with an error, every tool the turn invoked is in
\* tools_used_in_conversation.
C21_InvokedToolsRecorded ==
  [][(pc = "gw_final" /\ pc' = "loop")
     => \A i \in 1..Len(tools_used_this_turn) :
          tools_used_this_turn[i] \in Range(tools_used_in_conversation')]_vars

\* C22: a tool call of the Gateway is written to the tool server once: when
\* call_tool returns, whatever the Response was, nothing is written again and
\* the loop moves to the next call; at every point of the loop the turn has
\* written one tools/call per call it has passed, and at the follow-up Gateway
\* call one per requested call.
C22_NoReplay ==
  /\ [][(pc = "returned" /\ caller = "call_tool")
        => (/\ written' = written
            /\ stdin' = stdin
            /\ message_id' = message_id
            /\ idx' = idx + 1
            /\ pc' = "tool_loop")]_vars
  /\ [](pc = "tool_loop" => Len(written) = idx - 1)
  /\ [](pc = "gw_final" =>
          /\ Len(written) = Len(assistant_message.tool_calls)
          /\ \A i \in 1..Len(written) : written[i].method = "tools/call")

\* C22 happens: a turn reached its follow-up Gateway call after a tools/call
\* that got no Response, with one Request written per call
C22_Witness ==
  /\ pc = "gw_final"
  /\ Len(written) = 2
  /\ tool_results[1].result.error = Some("No response")
  /\ IsNone(tool_results[2].result.error)

\* the client's place in Uninitialized -> Initializing -> Ready -> Closed, as a
\* rank: no process yet; initialize not yet answered successfully; initialize
\* succeeded; stop() has run or main is over
ClientState ==
  IF pc = "done" \/ stop_calls > 0 THEN 3
  ELSE IF ~process THEN 0
  ELSE IF notification = "none" THEN 1
  ELSE 2

\* C23: the client only moves forward along Uninitialized -> Initializing ->
\* Ready -> Closed; the initialize Request is written when the client starts
\* initializing, tools/list and tools/call Requests only by a Ready client whose
\* child runs; once stop() has run nothing is written to or read from the
\* child.
C23_ForwardOnly ==
  /\ [][ClientState' >= ClientState]_vars
  /\ [][Len(stdin') > Len(stdin) =>
          IF Last(stdin').method = "initialize"
          THEN ClientState = 0 /\ ClientState' = 1
          ELSE IF Last(stdin').method = "notifications/initialized"
          THEN ClientState = 1 /\ ClientState' = 2
          ELSE /\ Last(stdin').method \in {"tools/list", "tools/call"}
               /\ ClientState = 2
               /\ ClientState' = 2
               /\ child = "running"
               /\ stop_calls = 0]_vars
  /\ [][(pc = "await_line" /\ pc' = "returned") => (ClientState \in {1, 2} /\ stop_calls = 0)]_vars
  /\ [][ClientState = 3 => UNCHANGED <<stdin, stdout, written, response, message_id>>]_vars
  /\ [](stop_calls > 0 => (pc = "done" /\ child = "exited" /\ IsNone(pending)))

\* C23 happens: a session that initialized, listed tools, called a tool in its
\* second turn and was stopped
C23_Witness ==
  /\ pc = "done"
  /\ stop_calls = 1
  /\ notification = "sent"
  /\ turn = 2
  /\ written # << >>
  /\ available_tools # << >>

\* C24: when a turn has returned the Gateway's answer, the conversation is the
\* one before the turn plus 2 entries (user, assistant) if the first response
\* requested no tool call, plus 4 entries (user, assistant tool-call message,
\* one entry with all tool results, final assistant) if it did; the last
\* entry is the message whose content was returned.
C24_TurnExtendsConversation ==
  pc = "loop" =>
    LET n == Len(history_before)
        h == conversation_history
    IN /\ outcome = "answer" =>
            /\ Len(h) = n + 2
            /\ SubSeq(h, 1, n) = history_before
            /\ h[n + 1].role = "user"
            /\ h[n + 2].role = "assistant"
            /\ h[n + 2].tool_calls = << >>
            /\ reply = Some(Last(h).content)
       /\ outcome = "final" =>
            /\ Len(h) = n + 4
            /\ SubSeq(h, 1, n) = history_before
            /\ h[n + 1].role = "user"
            /\ h[n + 2].role = "assistant"
            /\ h[n + 2].tool_calls # << >>
            /\ h[n + 3].role = "user"
            /\ Len(h[n + 3].results) = Len(h[n + 2].tool_calls)
            /\ h[n + 4].role = "assistant"
            /\ reply = Some(Last(h).content)

\* C24 happens: a turn with two tool calls returned its final message
C24_Witness ==
  /\ pc = "loop"
  /\ outcome = "final"
  /\ reply = Some("final")
  /\ Len(conversation_history[Len(conversation_history) - 1].results) = 2

====
